---------------------------- MODULE Spec2Model ----------------------------
(***************************************************************************)
(* Model of the flood-gauge repository's custom logic:                     *)
(*   estimate_depth/models/segmentation.py  (folder-pair loader, U-Net     *)
(*       decoder wiring, Dice loss, model save / load paths)               *)
(*   generate_data/gan.py                   (ReGAN network assembly and    *)
(*       the hand-written training loop)                                   *)
(* Each component has its own specification over its own variables; the    *)
(* variables of the other components stay at their idle values.            *)
(***************************************************************************)
EXTENDS Integers, Sequences, FiniteSets, TLC

VARIABLES
    \* ---- _load_kaggle_dataset ----
    truth,      \* truth/<subset>/   : subset -> set of file names
    images,     \* images/<subset>/  : subset -> set of file names
    dirs,       \* os.listdir(path + "truth"), in the order the OS returned it
    d,          \* position of the `for dir in dirs` loop (1-based)
    lpc,        \* control point of the loader
    x_train,    \* list of loaded images  (provenance of each tensor)
    y_train,    \* list of loaded masks   (provenance of each tensor)
    lerr,       \* exception that ended the loader, or "none"
    \* ---- _dice_loss ----
    y_true,     \* flattened ground-truth mask (0 / 1 per pixel)
    y_pred,     \* flattened predicted mask    (0 / 1 per pixel)
    dice,       \* value returned by _dice_loss, or NoValue before the call
    \* ---- _create_model, train_and_predict, predict_on_learned_model ----
    cwd,        \* working directory of the running process (path components)
    disk,       \* absolute paths that hold a saved model
    upc,        \* control point of the segmentation script
    ui,         \* loop variable i of the decoder loop
    ux,         \* shape [h, w, c] of the tensor x being built
    stages,     \* decoder stages built so far
    saved_to,   \* path model.save wrote in this process, or NoPath
    loaded_from,\* path load_model read after that save, or NoPath
    uerr,       \* exception that ended the last call, or "none"
    \* ---- ReGAN.__init__ and the networks it builds ----
    completed,  \* whether the attributes the class reads but never sets
                \* (img_size, noise_dim, discriminator, gen_loss, disc_loss,
                \* gen_optimizer, disc_optimizer) were supplied from outside
    img_size,   \* constructor argument img_size
    channels,   \* constructor argument channels
    noise_dim,  \* value of the attribute noise_dim when it is supplied
    gpc,        \* control point of the construction
    gk,         \* number of loop iterations done in the network being built
    gshape,     \* output shape [h, w, c] of the last layer added
    gen_out,    \* output shape of the finished generator
    disc_in,    \* input shape of the image discriminator
    gerr,       \* exception that ended the construction or use, or "none"
    \* ---- ReGAN.train and ReGAN.train_step ----
    epochs,     \* argument epochs of train
    batch_size, \* argument batch_size of train
    n,          \* len(dataset); the samples are dataset[0] .. dataset[n - 1]
    epoch,      \* loop variable of `for epoch in range(epochs)`
    ti,         \* loop variable i of `for i in range(len(dataset))`
    next_batch, \* the accumulator (indices of the samples it holds)
    handed,     \* batches handed to train_step so far in the current epoch
    generated_images, \* the list train returns (epoch of each entry)
    applied,    \* network -> set of <<optimizer, loss>> applied to its variables
    bn_moved,   \* networks whose BatchNormalization statistics a forward pass moved
    tpc,        \* control point of train
    terr        \* exception that ended train, or "none"

loaderVars == <<truth, images, dirs, d, lpc, x_train, y_train, lerr>>
diceVars == <<y_true, y_pred, dice>>
segVars == <<cwd, disk, upc, ui, ux, stages, saved_to, loaded_from, uerr>>
ganVars == <<completed, img_size, channels, noise_dim, gpc, gk, gshape, gen_out, disc_in, gerr>>
trainVars == <<epochs, batch_size, n, epoch, ti, next_batch, handed, generated_images,
               applied, bn_moved, tpc, terr>>

vars == <<loaderVars, diceVars, segVars, ganVars, trainVars>>

-----------------------------------------------------------------------------
(* Generic helpers *)

Range(s) == { s[k] : k \in 1..Len(s) }

Perms(S) == { f \in [1..Cardinality(S) -> S] : \A a, b \in 1..Cardinality(S) : f[a] = f[b] => a = b }

RECURSIVE SumSeq(_)
SumSeq(s) == IF s = <<>> THEN 0 ELSE Head(s) + SumSeq(Tail(s))

-----------------------------------------------------------------------------
(* Exact arithmetic with the smoothing term.                                *)
(* A quantity is a polynomial in eps = smooth = 1e-15 with integer          *)
(* coefficients, <<c0, c1, c2, ...>> standing for c0 + c1*eps + c2*eps^2    *)
(* + ...  Every coefficient of the model is far below 1e15 in magnitude, so *)
(* the sign of a polynomial at eps = 1e-15 is the sign of its first         *)
(* non-zero coefficient.  A fraction is a record [num, den] of two          *)
(* polynomials with den > 0.                                                *)

Coef(p, k) == IF k <= Len(p) THEN p[k] ELSE 0

PolyConst(c) == <<c>>

PolyAdd(p, q) ==
    [ k \in 1..(IF Len(p) >= Len(q) THEN Len(p) ELSE Len(q)) |-> Coef(p, k) + Coef(q, k) ]

PolyNeg(p) == [ k \in 1..Len(p) |-> 0 - p[k] ]

PolySub(p, q) == PolyAdd(p, PolyNeg(q))

PolyScale(c, p) == [ k \in 1..Len(p) |-> c * p[k] ]

PolyMul(p, q) ==
    [ k \in 1..(Len(p) + Len(q) - 1) |->
        SumSeq([ a \in 1..Len(p) |-> IF k + 1 - a \in 1..Len(q) THEN p[a] * q[k + 1 - a] ELSE 0 ]) ]

RECURSIVE PolySign(_)
PolySign(p) ==
    IF p = <<>> THEN 0
    ELSE IF Head(p) > 0 THEN 1
    ELSE IF Head(p) < 0 THEN 0 - 1
    ELSE PolySign(Tail(p))

\* a / b <= c / d  for fractions with positive denominators
FracLeq(x, y) == PolySign(PolySub(PolyMul(x.num, y.den), PolyMul(y.num, x.den))) <= 0

FracIsZero(x) == PolySign(x.num) = 0

FracOfPoly(p) == [num |-> p, den |-> PolyConst(1)]

\* smooth=1e-15, the default argument of _dice_coef
Smooth == <<0, 1>>

NoValue == [num |-> <<>>, den |-> <<>>]

\* Number of pixels of the masks handed to the loss.
NumPixels == 4

\* tf.reduce_sum(y_true * y_pred) of two flattened masks
Intersection(yt, yp) == SumSeq([ k \in 1..Len(yt) |-> yt[k] * yp[k] ])

\* _dice_coef with the factor 2 of the numerator left out
DiceCoefNoDouble(yt, yp) ==
    [ num |-> PolyAdd(PolyConst(Intersection(yt, yp)), Smooth),
      den |-> PolyAdd(PolyConst(SumSeq(yt) + SumSeq(yp)), Smooth) ]

\* (2. * intersection + smooth) / (tf.reduce_sum(y_true) + tf.reduce_sum(y_pred) + smooth)
_dice_coef(yt, yp) ==
    [ num |-> PolyAdd(PolyScale(2, PolyConst(Intersection(yt, yp))), Smooth),
      den |-> PolyAdd(PolyAdd(PolyConst(SumSeq(yt)), PolyConst(SumSeq(yp))), Smooth) ]

\* 1.0 - _dice_coef(y_true, y_pred)
_dice_loss(yt, yp) ==
    LET c == _dice_coef(yt, yp)
    IN  [ num |-> PolySub(c.den, c.num), den |-> c.den ]

DiceIdle == y_true = <<>> /\ y_pred = <<>> /\ dice = NoValue

-----------------------------------------------------------------------------
(* -------------- segmentation.py : network shapes and paths -------------- *)

IMG_WIDTH == 512

IMG_HEIGHT == 512

NoShape == [h |-> 0, w |-> 0, c |-> 0]

\* skip_connection_names = [...]
skip_connection_names ==
    <<"input_image", "block_1_expand_relu", "block_3_expand_relu", "block_6_expand_relu">>

\* encoder.get_layer("block_13_expand_relu")
encoder_output_name == "block_13_expand_relu"

\* f = [16, 32, 48, 64, 128]
f == <<16, 32, 48, 64, 128>>

\* Python's seq[-i]
NegIndex(seq, i) == seq[Len(seq) + 1 - i]

\* seq[i - 1]: the list read from its front instead of its back
SkipAtForward(i) == skip_connection_names[i]

\* skip_connection_names[-i]
SkipAt(i) == NegIndex(skip_connection_names, i)

\* f[-i]
FiltersAt(i) == NegIndex(f, i)

\* Total stride and channel count of the MobileNetV2 (alpha = 1) activations
\* the model reads: the input itself, and the expansion activations of
\* blocks 1, 3, 6 and 13.
EncoderStride(name) ==
    CASE name = "input_image" -> 1
      [] name = "block_1_expand_relu" -> 2
      [] name = "block_3_expand_relu" -> 4
      [] name = "block_6_expand_relu" -> 8
      [] name = "block_13_expand_relu" -> 16

EncoderChannels(name) ==
    CASE name = "input_image" -> 3
      [] name = "block_1_expand_relu" -> 96
      [] name = "block_3_expand_relu" -> 144
      [] name = "block_6_expand_relu" -> 192
      [] name = "block_13_expand_relu" -> 576

CeilDiv(a, b) == (a + b - 1) \div b

\* encoder.get_layer(name).output for inputs of shape (IMG_WIDTH, IMG_HEIGHT, 3)
EncoderLayer(name) ==
    [ h |-> CeilDiv(IMG_WIDTH, EncoderStride(name)),
      w |-> CeilDiv(IMG_HEIGHT, EncoderStride(name)),
      c |-> EncoderChannels(name) ]

\* layers.UpSampling2D((2, 2))
UpSampling2D(x) == [ h |-> 2 * x.h, w |-> 2 * x.w, c |-> x.c ]

\* layers.Concatenate() of two tensors of equal height and width
Concatenate(x, y) == [ h |-> x.h, w |-> x.w, c |-> x.c + y.c ]

\* layers.Conv2D(filters, ..., padding="same") (BatchNormalization and
\* Activation keep the shape)
Conv2D(x, filters) == [ h |-> x.h, w |-> x.w, c |-> filters ]

NoPath == <<>>

\* model.save("saved_models/u-net")
SavePath == <<"saved_models", "u-net">>

\* load_model("generate_data/saved_models/u-net/", ...)
LoadPath == <<"generate_data", "saved_models", "u-net">>

\* A relative path is resolved against the working directory.
Resolve(dir, rel) == dir \o rel

\* Directories the scripts may be started from.
WorkDirs ==
    { <<"repo">>, <<"repo", "generate_data">>, <<"repo", "estimate_depth">>,
      <<"repo", "estimate_depth", "models">> }

(* ------------------------ gan.py : layer shapes ------------------------- *)

\* filters = [16, 32, 64, 128] of _create_encoder
encoder_filters == <<16, 32, 64, 128>>

\* filters = [4, 8, 16, 32, 64, 128, 256] of the generator and of the image
\* discriminator
gan_filters == <<4, 8, 16, 32, 64, 128, 256>>

\* Conv2DTranspose(filters=512, kernel_size=4)
gen_first_filters == 512

gen_first_kernel == 4

\* Conv2DTranspose with the default strides 1 and padding "valid"
Conv2DTranspose(x, filters, kernel) ==
    [ h |-> (x.h - 1) + kernel, w |-> (x.w - 1) + kernel, c |-> filters ]

\* AveragePooling2D(): pool 2 x 2, strides 2, padding "valid"
AveragePooling2D(x) == [ h |-> (x.h - 2) \div 2 + 1, w |-> (x.w - 2) \div 2 + 1, c |-> x.c ]

\* Flatten + Dense(units)
Dense(x, units) == [ h |-> 1, w |-> 1, c |-> units ]

Square(size, chans) == [ h |-> size, w |-> size, c |-> chans ]

\* Image sizes the constructor is called with: 2^MinImgExp .. 2^MaxImgExp.
MinImgExp == 6

MaxImgExp == 10

ImgSizes == { 2 ^ e : e \in MinImgExp..MaxImgExp }

ChannelCounts == {1, 3}

NoiseDims == {100, 4096}

GanBuiltIdle ==
    /\ img_size = 0 /\ channels = 0 /\ noise_dim = 0 /\ gpc = "idle"
    /\ gk = 0 /\ gshape = NoShape /\ gen_out = NoShape /\ disc_in = NoShape /\ gerr = "none"

GanIdle == completed = FALSE /\ GanBuiltIdle

(* ------------------- gan.py : train and train_step ---------------------- *)

\* Largest epochs, len(dataset) and batch_size train is called with.
MaxEpochs == 20

MaxLen == 4

MaxBatch == 3

Networks == {"encoder", "generator", "encoder_discriminator", "image_discriminator"}

NoUpdates == [ net \in Networks |-> {} ]

\* a % (num / den) == 0 in exact arithmetic, for integers a >= 0, num > 0,
\* den > 0: a is a whole multiple of num / den.
RatModIsZero(a, num, den) == (a * den) % num = 0

\* epoch % (epochs / 10) == 0
IsTenth(e, es) == RatModIsZero(e, es, 10)

\* self.generator
generator == "generator"

\* self.discriminator: the class never sets this attribute; when it is
\* supplied it is the image discriminator, the only discriminator built.
discriminator == "image_discriminator"

\* the generator optimizer handed the image discriminator's variables
GenOptimizerOnDiscriminator(ap) ==
    [ ap EXCEPT ![discriminator] = @ \cup {<<"gen_optimizer", "generator_loss">>} ]

\* gen_grads = gen_tape.gradient(generator_loss, self.generator.trainable_variables)
\* self.gen_optimizer.apply_gradients(zip(gen_grads, self.generator.trainable_variables))
ApplyGenOptimizer(ap) ==
    [ ap EXCEPT ![generator] = @ \cup {<<"gen_optimizer", "generator_loss">>} ]

\* disc_grads = disc_tape.gradient(discriminator_loss, self.discriminator.trainable_variables)
\* self.disc_optimizer.apply_gradients(zip(disc_grads, self.discriminator.trainable_variables))
ApplyDiscOptimizer(ap) ==
    [ ap EXCEPT ![discriminator] = @ \cup {<<"disc_optimizer", "discriminator_loss">>} ]

\* The effect of one train_step on the trainable variables.
TrainStepApplied(ap) == ApplyDiscOptimizer(ApplyGenOptimizer(ap))

\* self.generator(noise, training=True); self.discriminator(..., training=True)
TrainStepForward(moved) == moved \cup {generator, discriminator}

TrainIdle ==
    /\ epochs = 0 /\ batch_size = 0 /\ n = 0 /\ epoch = 0 /\ ti = 0 /\ next_batch = <<>>
    /\ handed = <<>> /\ generated_images = <<>> /\ applied = NoUpdates /\ bn_moved = {}
    /\ tpc = "idle" /\ terr = "none"

SegIdle ==
    /\ cwd = <<>> /\ disk = {} /\ upc = "idle" /\ ui = 0 /\ ux = NoShape
    /\ stages = <<>> /\ saved_to = NoPath /\ loaded_from = NoPath /\ uerr = "none"

-----------------------------------------------------------------------------
(* ---------------- segmentation.py : _load_kaggle_dataset ---------------- *)

\* File names are Python strings, modelled as their sequences of code points
\* ("1." .. is the stem and the dot of "1.png"; the common suffix "png"
\* never decides a comparison).  48 = "0", 49 = "1", 50 = "2", 46 = ".".
NamePool == << <<49, 46>>, <<50, 46>>, <<49, 48, 46>> >>     \* 1.png 2.png 10.png

SubsetPool == {"a", "b"}

\* Largest number of files in one directory of the explored file systems.
MaxFiles == 2

FileSets == { S \in SUBSET Range(NamePool) : Cardinality(S) <= MaxFiles }

\* Python's str comparison: lexicographic by code point, a proper prefix first.
RECURSIVE StrLess(_, _)
StrLess(s, t) ==
    IF t = <<>> THEN FALSE
    ELSE IF s = <<>> THEN TRUE
    ELSE IF Head(s) # Head(t) THEN Head(s) < Head(t)
    ELSE StrLess(Tail(s), Tail(t))

\* sorted(iterable of str): ascending list of the elements.
RECURSIVE Sorted(_)
Sorted(S) ==
    IF S = {} THEN <<>>
    ELSE LET m == CHOOSE a \in S : \A b \in S \ {a} : StrLess(a, b)
         IN  <<m>> \o Sorted(S \ {m})

Reverse(s) == [ k \in 1..Len(s) |-> s[Len(s) + 1 - k] ]

\* for img_name in sorted(os.listdir(images_dir))
ImageListing(dir) == Sorted(images[dir])

\* a truth listing that is not sorted (what os.listdir alone may return)
TruthListingUnsorted(dir) == Reverse(Sorted(truth[dir]))

\* for img_name in sorted(os.listdir(truth_dir))
TruthListing(dir) == Sorted(truth[dir])

\* The tensor appended for one file, identified by where it was read from.
Loaded(dir, listing) == [ k \in 1..Len(listing) |-> [subset |-> dir, name |-> listing[k]] ]

LoaderIdle ==
    /\ truth = <<>> /\ images = <<>> /\ dirs = <<>> /\ d = 0
    /\ lpc = "idle" /\ x_train = <<>> /\ y_train = <<>> /\ lerr = "none"

LoaderInit ==
    /\ \E inTruth \in SUBSET SubsetPool, inImages \in SUBSET SubsetPool :
          /\ truth \in [inTruth -> FileSets]
          /\ images \in [inImages -> FileSets]
    /\ dirs = <<>>
    /\ d = 0
    /\ lpc = "start"
    /\ x_train = <<>>
    /\ y_train = <<>>
    /\ lerr = "none"

\* dirs = os.listdir(path + "truth"): the order is the operating system's.
ListTruth ==
    /\ lpc = "start"
    /\ \E order \in Perms(DOMAIN truth) : dirs' = order
    /\ d' = 1
    /\ lpc' = "images"
    /\ UNCHANGED <<truth, images, x_train, y_train, lerr>>
    /\ UNCHANGED <<diceVars, segVars, ganVars, trainVars>>

\* The first inner loop of one subset: every image of images/<dir>/.
LoadImages ==
    /\ lpc = "images"
    /\ d <= Len(dirs)
    /\ dirs[d] \in DOMAIN images
    /\ x_train' = x_train \o Loaded(dirs[d], ImageListing(dirs[d]))
    /\ lpc' = "truth"
    /\ UNCHANGED <<truth, images, dirs, d, y_train, lerr>>
    /\ UNCHANGED <<diceVars, segVars, ganVars, trainVars>>

\* os.listdir(images_dir) of a directory that does not exist raises.
LoadImagesMissing ==
    /\ lpc = "images"
    /\ d <= Len(dirs)
    /\ dirs[d] \notin DOMAIN images
    /\ lpc' = "raised"
    /\ lerr' = "FileNotFoundError"
    /\ UNCHANGED <<truth, images, dirs, d, x_train, y_train>>
    /\ UNCHANGED <<diceVars, segVars, ganVars, trainVars>>

\* The second inner loop of one subset: every mask of truth/<dir>/.
LoadTruth ==
    /\ lpc = "truth"
    /\ y_train' = y_train \o Loaded(dirs[d], TruthListing(dirs[d]))
    /\ d' = d + 1
    /\ lpc' = "images"
    /\ UNCHANGED <<truth, images, dirs, x_train, lerr>>
    /\ UNCHANGED <<diceVars, segVars, ganVars, trainVars>>

\* return x_train, y_train
LoaderReturn ==
    /\ lpc = "images"
    /\ d > Len(dirs)
    /\ lpc' = "returned"
    /\ UNCHANGED <<truth, images, dirs, d, x_train, y_train, lerr>>
    /\ UNCHANGED <<diceVars, segVars, ganVars, trainVars>>

LoaderNext ==
    \/ ListTruth
    \/ LoadImages
    \/ LoadImagesMissing
    \/ LoadTruth
    \/ LoaderReturn

InitLoader == LoaderInit /\ DiceIdle /\ SegIdle /\ GanIdle /\ TrainIdle

SpecLoader == InitLoader /\ [][LoaderNext]_vars

-----------------------------------------------------------------------------
(* --------------- segmentation.py : _dice_coef, _dice_loss --------------- *)

DiceInit ==
    /\ y_true \in [1..NumPixels -> {0, 1}]
    /\ y_pred \in [1..NumPixels -> {0, 1}]
    /\ dice = NoValue

\* loss = _dice_loss(y_true, y_pred)
CallDiceLoss ==
    /\ dice = NoValue
    /\ dice' = _dice_loss(y_true, y_pred)
    /\ UNCHANGED <<y_true, y_pred>>
    /\ UNCHANGED <<loaderVars, segVars, ganVars, trainVars>>

DiceNext == CallDiceLoss

InitDice == DiceInit /\ LoaderIdle /\ SegIdle /\ GanIdle /\ TrainIdle

SpecDice == InitDice /\ [][DiceNext]_vars

-----------------------------------------------------------------------------
(* --- segmentation.py : train_and_predict, _create_model, load_model --- *)

SegInit ==
    /\ cwd \in WorkDirs
    /\ disk = {}
    /\ upc = "shell"
    /\ ui = 0
    /\ ux = NoShape
    /\ stages = <<>>
    /\ saved_to = NoPath
    /\ loaded_from = NoPath
    /\ uerr = "none"

\* The script is run again, possibly from another directory; the disk stays.
Restart ==
    /\ upc \in {"shell", "raised"}
    /\ \E c \in WorkDirs : cwd' = c
    /\ upc' = "shell"
    /\ ui' = 0
    /\ ux' = NoShape
    /\ stages' = <<>>
    /\ saved_to' = NoPath
    /\ loaded_from' = NoPath
    /\ uerr' = "none"
    /\ UNCHANGED disk
    /\ UNCHANGED <<loaderVars, diceVars, ganVars, trainVars>>

\* train_and_predict up to the decoder loop of _create_model:
\* x = encoder_output
TrainBegin ==
    /\ upc = "shell"
    /\ upc' = "decoder"
    /\ ui' = 1
    /\ ux' = EncoderLayer(encoder_output_name)
    /\ stages' = <<>>
    /\ uerr' = "none"
    /\ UNCHANGED <<cwd, disk, saved_to, loaded_from>>
    /\ UNCHANGED <<loaderVars, diceVars, ganVars, trainVars>>

\* One iteration of `for i in range(1, len(skip_connection_names) + 1)`.
\* Concatenate raises when the two inputs differ in height or width.
DecoderStage ==
    /\ upc = "decoder"
    /\ ui <= Len(skip_connection_names)
    /\ LET skip == SkipAt(ui)
           x_skip == EncoderLayer(skip)
           up == UpSampling2D(ux)
       IN  IF up.h = x_skip.h /\ up.w = x_skip.w
           THEN /\ ux' = Conv2D(Concatenate(up, x_skip), FiltersAt(ui))
                /\ stages' = Append(stages, [skip |-> skip, filters |-> FiltersAt(ui),
                                              up |-> up, x_skip |-> x_skip])
                /\ ui' = ui + 1
                /\ UNCHANGED <<upc, uerr>>
           ELSE /\ upc' = "raised"
                /\ uerr' = "ValueError"
                /\ UNCHANGED <<ui, ux, stages>>
    /\ UNCHANGED <<cwd, disk, saved_to, loaded_from>>
    /\ UNCHANGED <<loaderVars, diceVars, ganVars, trainVars>>

\* x = layers.Conv2D(1, (1, 1), padding="same")(x); sigmoid; Model; compile
OutputLayer ==
    /\ upc = "decoder"
    /\ ui > Len(skip_connection_names)
    /\ ux' = Conv2D(ux, 1)
    /\ upc' = "compiled"
    /\ UNCHANGED <<cwd, disk, ui, stages, saved_to, loaded_from, uerr>>
    /\ UNCHANGED <<loaderVars, diceVars, ganVars, trainVars>>

\* model.fit(...); model.save("saved_models/u-net")
FitAndSave ==
    /\ upc = "compiled"
    /\ disk' = disk \cup {Resolve(cwd, SavePath)}
    /\ saved_to' = Resolve(cwd, SavePath)
    /\ loaded_from' = NoPath
    /\ upc' = "shell"
    /\ UNCHANGED <<cwd, ui, ux, stages, uerr>>
    /\ UNCHANGED <<loaderVars, diceVars, ganVars, trainVars>>

\* tf.keras.models.load_model("generate_data/saved_models/u-net/", compile=False)
LoadModel ==
    /\ upc = "shell"
    /\ loaded_from' = Resolve(cwd, LoadPath)
    /\ IF Resolve(cwd, LoadPath) \in disk
       THEN upc' = "shell" /\ uerr' = "none"
       ELSE upc' = "raised" /\ uerr' = "OSError"
    /\ UNCHANGED <<cwd, disk, ui, ux, stages, saved_to>>
    /\ UNCHANGED <<loaderVars, diceVars, ganVars, trainVars>>

\* display_segmentation(images)
DisplaySegmentation == LoadModel

\* predict_on_learned_model(images)
PredictOnLearnedModel == LoadModel

SegNext ==
    \/ Restart
    \/ TrainBegin
    \/ DecoderStage
    \/ OutputLayer
    \/ FitAndSave
    \/ DisplaySegmentation
    \/ PredictOnLearnedModel

InitSeg == SegInit /\ LoaderIdle /\ DiceIdle /\ GanIdle /\ TrainIdle

SpecSeg == InitSeg /\ [][SegNext]_vars

-----------------------------------------------------------------------------
(* ----------------------- gan.py : ReGAN.__init__ ------------------------ *)

GanInit ==
    /\ completed \in BOOLEAN
    /\ img_size \in ImgSizes
    /\ channels \in ChannelCounts
    /\ noise_dim \in NoiseDims
    /\ gpc = "encoder"
    /\ gk = 0
    /\ gshape = NoShape
    /\ gen_out = NoShape
    /\ disc_in = NoShape
    /\ gerr = "none"

\* self.encoder = self._create_encoder(): reads self.img_size, which the
\* constructor never sets (it sets image_size).
CreateEncoder ==
    /\ gpc = "encoder"
    /\ IF completed
       THEN /\ gshape' = Dense(Square(img_size, encoder_filters[Len(encoder_filters)]), noise_dim)
            /\ gpc' = "gen_reshape"
            /\ UNCHANGED gerr
       ELSE /\ gpc' = "raised"
            /\ gerr' = "AttributeError"
            /\ UNCHANGED gshape
    /\ UNCHANGED <<completed, img_size, channels, noise_dim, gk, gen_out, disc_in>>
    /\ UNCHANGED <<loaderVars, diceVars, segVars, trainVars>>

\* generator.add(layers.Reshape(target_shape=[1, 1, self.noise_dim], ...))
GenReshape ==
    /\ gpc = "gen_reshape"
    /\ gshape' = [h |-> 1, w |-> 1, c |-> noise_dim]
    /\ gpc' = "gen_convT"
    /\ UNCHANGED <<completed, img_size, channels, noise_dim, gk, gen_out, disc_in, gerr>>
    /\ UNCHANGED <<loaderVars, diceVars, segVars, trainVars>>

\* generator.add(layers.Conv2DTranspose(filters=512, kernel_size=4))
GenConvTranspose ==
    /\ gpc = "gen_convT"
    /\ gshape' = Conv2DTranspose(gshape, gen_first_filters, gen_first_kernel)
    /\ gk' = 0
    /\ gpc' = "gen_stages"
    /\ UNCHANGED <<completed, img_size, channels, noise_dim, gen_out, disc_in, gerr>>
    /\ UNCHANGED <<loaderVars, diceVars, segVars, trainVars>>

\* One iteration of `for f in reversed(filters)`: Conv2D, BatchNormalization,
\* relu, UpSampling2D.
GenStage ==
    /\ gpc = "gen_stages"
    /\ gk < Len(gan_filters)
    /\ gshape' = UpSampling2D(Conv2D(gshape, NegIndex(gan_filters, gk + 1)))
    /\ gk' = gk + 1
    /\ UNCHANGED <<completed, img_size, channels, noise_dim, gpc, gen_out, disc_in, gerr>>
    /\ UNCHANGED <<loaderVars, diceVars, segVars, trainVars>>

\* generator.add(layers.Conv2D(filters=self.channels, ...)); sigmoid; return.
\* Then self.encoder_discriminator = self._create_encoder_discriminator(),
\* which returns None.
GenOutput ==
    /\ gpc = "gen_stages"
    /\ gk = Len(gan_filters)
    /\ gshape' = Conv2D(gshape, channels)
    /\ gen_out' = Conv2D(gshape, channels)
    /\ gpc' = "disc_input"
    /\ UNCHANGED <<completed, img_size, channels, noise_dim, gk, disc_in, gerr>>
    /\ UNCHANGED <<loaderVars, diceVars, segVars, trainVars>>

\* discriminator.add(layers.InputLayer(input_shape=(img_size, img_size, channels)))
DiscInput ==
    /\ gpc = "disc_input"
    /\ gshape' = Square(img_size, channels)
    /\ disc_in' = Square(img_size, channels)
    /\ gk' = 0
    /\ gpc' = "disc_stages"
    /\ UNCHANGED <<completed, img_size, channels, noise_dim, gen_out, gerr>>
    /\ UNCHANGED <<loaderVars, diceVars, segVars, trainVars>>

\* One iteration of `for f in filters`: Conv2D, BatchNormalization, LeakyReLU,
\* Dropout, AveragePooling2D.  Pooling a map smaller than the pool raises.
DiscStage ==
    /\ gpc = "disc_stages"
    /\ gk < Len(gan_filters)
    /\ IF gshape.h >= 2 /\ gshape.w >= 2
       THEN /\ gshape' = AveragePooling2D(Conv2D(gshape, gan_filters[gk + 1]))
            /\ gk' = gk + 1
            /\ UNCHANGED <<gpc, gerr>>
       ELSE /\ gpc' = "raised"
            /\ gerr' = "ValueError"
            /\ UNCHANGED <<gshape, gk>>
    /\ UNCHANGED <<completed, img_size, channels, noise_dim, gen_out, disc_in>>
    /\ UNCHANGED <<loaderVars, diceVars, segVars, trainVars>>

\* Flatten, Dense(128), LeakyReLU, Dense(1); return discriminator
DiscHead ==
    /\ gpc = "disc_stages"
    /\ gk = Len(gan_filters)
    /\ gshape' = Dense(Dense(gshape, 128), 1)
    /\ gpc' = "built"
    /\ UNCHANGED <<completed, img_size, channels, noise_dim, gk, gen_out, disc_in, gerr>>
    /\ UNCHANGED <<loaderVars, diceVars, segVars, trainVars>>

\* train_step: fake_output = self.discriminator(generated_images, ...).
\* A model called on a tensor that is not of its input shape raises.
DiscriminateGenerated ==
    /\ gpc = "built"
    /\ IF gen_out = disc_in
       THEN gpc' = "judged" /\ UNCHANGED gerr
       ELSE gpc' = "raised" /\ gerr' = "ValueError"
    /\ UNCHANGED <<completed, img_size, channels, noise_dim, gk, gshape, gen_out, disc_in>>
    /\ UNCHANGED <<loaderVars, diceVars, segVars, trainVars>>

GanNext ==
    \/ CreateEncoder
    \/ GenReshape
    \/ GenConvTranspose
    \/ GenStage
    \/ GenOutput
    \/ DiscInput
    \/ DiscStage
    \/ DiscHead
    \/ DiscriminateGenerated

InitGan == GanInit /\ LoaderIdle /\ DiceIdle /\ SegIdle /\ TrainIdle

SpecGan == InitGan /\ [][GanNext]_vars

-----------------------------------------------------------------------------
(* ------------------ gan.py : ReGAN.train, train_step -------------------- *)

TrainInit ==
    /\ epochs \in 0..MaxEpochs
    /\ batch_size \in 1..MaxBatch
    /\ n \in 0..MaxLen
    /\ epoch = 0
    /\ ti = 0
    /\ next_batch = <<>>
    /\ handed = <<>>
    /\ generated_images = <<>>
    /\ applied = NoUpdates
    /\ bn_moved = {}
    /\ tpc = "epochs"
    /\ terr = "none"

\* for epoch in range(epochs): ... next_batch = []
EpochStart ==
    /\ tpc = "epochs"
    /\ epoch < epochs
    /\ next_batch' = <<>>
    /\ handed' = <<>>
    /\ ti' = 0
    /\ tpc' = "samples"
    /\ UNCHANGED <<epochs, batch_size, n, epoch, generated_images, applied, bn_moved, terr>>
    /\ UNCHANGED <<loaderVars, diceVars, segVars, ganVars>>

\* One iteration of the sample loop in which i % batch_size != 0:
\* next_batch.append(dataset[i]) only.
Accumulate ==
    /\ tpc = "samples"
    /\ ti < n
    /\ ti % batch_size # 0
    /\ next_batch' = Append(next_batch, ti)
    /\ ti' = ti + 1
    /\ UNCHANGED <<epochs, batch_size, n, epoch, handed, generated_images, applied,
                   bn_moved, tpc, terr>>
    /\ UNCHANGED <<loaderVars, diceVars, segVars, ganVars>>

\* One iteration of the sample loop in which i % batch_size == 0:
\* next_batch.append(dataset[i]); train_step(np.array(next_batch));
\* next_batch = [].  train_step reads self.noise_dim first, which raises
\* unless the attribute was supplied.
AccumulateAndStep ==
    /\ tpc = "samples"
    /\ ti < n
    /\ ti % batch_size = 0
    /\ IF completed
       THEN /\ handed' = Append(handed, Append(next_batch, ti))
            /\ applied' = TrainStepApplied(applied)
            /\ bn_moved' = TrainStepForward(bn_moved)
            /\ next_batch' = <<>>
            /\ ti' = ti + 1
            /\ UNCHANGED <<tpc, terr>>
       ELSE /\ next_batch' = Append(next_batch, ti)
            /\ tpc' = "raised"
            /\ terr' = "AttributeError"
            /\ UNCHANGED <<handed, applied, bn_moved, ti>>
    /\ UNCHANGED <<epochs, batch_size, n, epoch, generated_images>>
    /\ UNCHANGED <<loaderVars, diceVars, segVars, ganVars>>

\* The sample loop of this epoch is exhausted.
SamplesDone ==
    /\ tpc = "samples"
    /\ ti = n
    /\ tpc' = "epoch_end"
    /\ UNCHANGED <<epochs, batch_size, n, epoch, ti, next_batch, handed, generated_images,
                   applied, bn_moved, terr>>
    /\ UNCHANGED <<loaderVars, diceVars, segVars, ganVars>>

\* if epoch % (epochs / 10) == 0: generated_images.append(self.call(...));
\* print(...); next epoch.  The append reads self.noise_dim.
EpochEnd ==
    /\ tpc = "epoch_end"
    /\ IF IsTenth(epoch, epochs)
       THEN IF completed
            THEN /\ generated_images' = Append(generated_images, epoch)
                 /\ epoch' = epoch + 1
                 /\ tpc' = "epochs"
                 /\ UNCHANGED terr
            ELSE /\ tpc' = "raised"
                 /\ terr' = "AttributeError"
                 /\ UNCHANGED <<generated_images, epoch>>
       ELSE /\ epoch' = epoch + 1
            /\ tpc' = "epochs"
            /\ UNCHANGED <<generated_images, terr>>
    /\ UNCHANGED <<epochs, batch_size, n, ti, next_batch, handed, applied, bn_moved>>
    /\ UNCHANGED <<loaderVars, diceVars, segVars, ganVars>>

\* return generated_images
TrainReturn ==
    /\ tpc = "epochs"
    /\ epoch = epochs
    /\ tpc' = "returned"
    /\ UNCHANGED <<epochs, batch_size, n, epoch, ti, next_batch, handed, generated_images,
                   applied, bn_moved, terr>>
    /\ UNCHANGED <<loaderVars, diceVars, segVars, ganVars>>

TrainNext ==
    \/ EpochStart
    \/ Accumulate
    \/ AccumulateAndStep
    \/ SamplesDone
    \/ EpochEnd
    \/ TrainReturn

InitTrain ==
    TrainInit /\ completed \in BOOLEAN /\ GanBuiltIdle /\ LoaderIdle /\ DiceIdle /\ SegIdle

SpecTrain == InitTrain /\ [][TrainNext]_vars

-----------------------------------------------------------------------------
(* ------------------------------ Properties ------------------------------ *)

\* Every subset directory listed under truth/ exists under images/ and holds
\* the same file names there.
SameFileSets == \A s \in DOMAIN truth : s \in DOMAIN images /\ images[s] = truth[s]

DirIndex(s) == CHOOSE k \in 1..Len(dirs) : dirs[k] = s

\* C1: when every subset holds the same file names under images/ and truth/,
\* the lists _load_kaggle_dataset returns have equal length, x_train[k] and
\* y_train[k] come from the same subset and file for every k, every file of
\* every subset is loaded, subsets follow the iteration order of dirs and
\* files are in sorted (string) order inside each subset.
C1_PairsByPosition ==
    (lpc = "returned" /\ SameFileSets) =>
        /\ Len(x_train) = Len(y_train)
        /\ \A k \in 1..Len(x_train) :
              /\ x_train[k].subset = y_train[k].subset
              /\ x_train[k].name = y_train[k].name
        /\ \A e \in Range(x_train) : e.subset \in DOMAIN truth /\ e.name \in truth[e.subset]
        /\ \A s \in DOMAIN truth : \A nm \in truth[s] : [subset |-> s, name |-> nm] \in Range(x_train)
        /\ \A k, l \in 1..Len(x_train) :
              k < l =>
                \/ DirIndex(x_train[k].subset) < DirIndex(x_train[l].subset)
                \/ /\ x_train[k].subset = x_train[l].subset
                   /\ StrLess(x_train[k].name, x_train[l].name)

\* C1 witness: two subsets with two files each were loaded and returned.
C1_Witness ==
    /\ lpc = "returned"
    /\ SameFileSets
    /\ Len(dirs) = 2
    /\ Len(x_train) = 4
    /\ Len(y_train) = 4

\* C2 (as claimed): the loader never returns normally when some subset's
\* file names under images/ differ from those under truth/.
C2_MismatchRaises ==
    lpc = "returned" => \A s \in DOMAIN truth : images[s] = truth[s]

\* C7: for binary masks the Dice loss is 0 when prediction and ground truth
\* are identical (also when both are all background) and within eps of 1
\* when they share no foreground pixel and both are non-empty.
C7_DiceLossEnds ==
    dice # NoValue =>
        /\ y_pred = y_true => FracIsZero(dice)
        /\ (Intersection(y_true, y_pred) = 0 /\ SumSeq(y_true) > 0 /\ SumSeq(y_pred) > 0) =>
              /\ FracLeq(FracOfPoly(PolySub(PolyConst(1), Smooth)), dice)
              /\ FracLeq(dice, FracOfPoly(PolyAdd(PolyConst(1), Smooth)))

\* C7 witness: the loss was computed for two non-empty masks without overlap.
C7_Witness ==
    /\ dice # NoValue
    /\ Intersection(y_true, y_pred) = 0
    /\ SumSeq(y_true) > 0
    /\ SumSeq(y_pred) > 0

\* C6 (as claimed): in one process, a model loaded after train_and_predict
\* saved one is read from the directory it was saved to.
C6_LoadsWhatWasSaved ==
    (saved_to # NoPath /\ loaded_from # NoPath) => loaded_from = saved_to

\* C8: the decoder runs exactly four stages, over the skips block_6, block_3,
\* block_1, input_image with 128, 64, 48, 32 filters; in every stage the
\* upsampled map has the height and width of its skip; the compiled model's
\* output is 512 x 512 x 1.
C8_DecoderWiring ==
    /\ Len(stages) <= 4
    /\ \A k \in 1..Len(stages) :
          /\ stages[k].skip = <<"block_6_expand_relu", "block_3_expand_relu",
                                "block_1_expand_relu", "input_image">>[k]
          /\ stages[k].filters = <<128, 64, 48, 32>>[k]
          /\ stages[k].up.h = stages[k].x_skip.h
          /\ stages[k].up.w = stages[k].x_skip.w
    /\ uerr # "ValueError"
    /\ upc = "compiled" =>
          /\ Len(stages) = 4
          /\ ux = [h |-> 512, w |-> 512, c |-> 1]

\* C8 witness: a model was assembled and compiled.
C8_Witness == upc = "compiled" /\ Len(stages) = 4

\* C9 (as claimed): for every configured img_size the finished generator
\* outputs img_size x img_size x channels, the input shape of the image
\* discriminator.
C9_GeneratorFullResolution ==
    gen_out # NoShape => gen_out = Square(img_size, channels)

\* Number of samples handed to train_step so far in the current epoch.
HandedCount == SumSeq([ k \in 1..Len(handed) |-> Len(handed[k]) ])

Consecutive(b) == \A k \in 1..(Len(b) - 1) : b[k + 1] = b[k] + 1

\* C3 (as claimed): every batch handed to train_step holds exactly
\* batch_size consecutive samples, and the accumulator holds exactly the
\* samples read since the last step, in dataset order (it was emptied by
\* that step).
C3_FullBatches ==
    /\ \A k \in 1..Len(handed) : Len(handed[k]) = batch_size /\ Consecutive(handed[k])
    /\ tpc = "samples" =>
          next_batch = [ j \in 1..(ti - HandedCount) |-> HandedCount + j - 1 ]

\* C4 (as claimed): for epochs >= 10 the returned list has exactly 10
\* entries, stored in increasing epoch order starting with epoch 0.
C4_TenPictures ==
    (tpc = "returned" /\ epochs >= 10) =>
        /\ Len(generated_images) = 10
        /\ generated_images[1] = 0
        /\ \A k \in 1..(Len(generated_images) - 1) : generated_images[k] < generated_images[k + 1]

C10_EverySampleTrainedOnce ==
    tpc = "epoch_end" =>
        \A s \in 0..(n - 1) :
            Cardinality({ p \in { <<k, j>> : k \in 1..Len(handed), j \in 1..(MaxLen + 1) } :
                            p[2] <= Len(handed[p[1]]) /\ handed[p[1]][p[2]] = s }) = 1

=============================================================================
